---------------------------- MODULE Spec2Model ----------------------------
(***************************************************************************)
(* Derived-metrics pipeline of the affordable-housing analysis:            *)
(*   generate_data_simple.py        per-city coverage ratio                *)
(*   partner_template.py            rollup by city type, label offsets     *)
(*   create_visualizations_altair.py / app.py   cumulative expiring units  *)
(*                                                                         *)
(* Numbers.  Python floats are modelled as exact rationals [num, den];     *)
(* a float that is inf or nan is the record with den = 0 (num > 0 is inf,  *)
(* num = 0 is nan).  Python's round(x, n) is modelled on the exact value;  *)
(* at an exact decimal tie the binary representation of x decides, so the  *)
(* model allows both neighbours there.                                     *)
(***************************************************************************)
EXTENDS Integers, Sequences, FiniteSets, TLC

(***************************************************************************)
(* Bounds of the model.                                                    *)
(***************************************************************************)
\* random.randint draws of lines 37-40 range over 0..MaxDraw
MaxDraw == 1
\* entries of the severe_cost_burden_renters table range over 0..MaxBurden ...
MaxBurden == 3
\* ... and one entry large enough for a ratio below half a hundredth
LargeBurden == 20001

\* rows of policy_coverage.csv and of policy_mix.csv
MaxCoverageRows == 2
MaxMixRows == 2
\* expiration records loaded
MaxExpiringRows == 3
\* rows of hpi_master.csv and date columns of the value file
MaxHpiRows == 2
MaxZhviCols == 2
\* rows of each input when the programs are run a second time
MaxRerunRows == 2

\* the factor both supply and demand are multiplied by
Thousand == 1000
\* ndigits of round(coverage_ratio, 2)
RatioDigits == 2

VARIABLES
    \* generate_data_simple.py
    gen_pc,        \* index into cities of the next loop iteration, or 0 after a fault
    policy_data,   \* the list the loop appends to
    policy_mix_data,  \* the list the loop of section 2 appends to
    \* partner_template.py, visualization 2
    coverage_csv,  \* data/processed/policy_coverage.csv: [present, rows]
    mix_csv,       \* data/processed/policy_mix.csv: [present, rows]
    by_type,       \* the rollup data frame, one record per row
    chart2,        \* "pending", "saved", "skipped" (FileNotFoundError) or "error"
    \* create_visualizations_altair.py, visualization 3, and app.py, future risk
    expiring_units,      \* the loaded expiration records
    expiring_summary,    \* batch: one row per (city, year)
    expiring_cumulative, \* batch: the summary with its running total
    batch3,              \* "pending" or "saved"
    year_range,          \* app: the slider's (lo, hi)
    df_summary,          \* app: one row per (city, year) of the selected years
    df_cumulative,       \* app: the summary with its running total
    risk_page,           \* app: "idle", "shown" or "error"
    \* partner_template.py, visualizations 1 and 3
    burden_geo,    \* visualization 1: the coverage rows tagged with their city type
    chart1,        \* "pending", "saved", "skipped" (FileNotFoundError) or "error"
    hpi_csv,       \* data/hpi_master.csv: [present, rows]
    zhvi_csv,      \* data/Metro_zhvi_...csv: [present, cols], the cells of the US row
    covid_trends,  \* visualization 3: the merged annual series
    chart3,        \* "pending", "saved" or "error"
    \* create_visualizations_altair.py, loading and visualizations 1 and 2
    alt_files,     \* which of the three csv files exist
    alt_run,       \* "start", "loaded" or "exited" (exit(1))
    alt_chart1,    \* coverage gap and coverage ratio charts: "pending" or "saved"
    alt_chart2,    \* policy mix charts: "pending" or "saved"
    \* app.py, loading and pages
    app_files,     \* which of the three json files exist
    app_run,       \* "start", "loaded" or "stopped" (st.stop())
    app_page,      \* the page rendered last, "none" before any
    \* what the programs print (print, st.error, the uncaught exception display)
    reports        \* the set of messages so far: [program, subject, why]

genVars == <<gen_pc, policy_data, policy_mix_data>>
viz2Vars == <<coverage_csv, mix_csv, by_type, chart2>>
batchVars == <<expiring_summary, expiring_cumulative, batch3>>
appVars == <<year_range, df_summary, df_cumulative, risk_page>>
riskVars == <<expiring_units, expiring_summary, expiring_cumulative, batch3,
              year_range, df_summary, df_cumulative, risk_page>>
ptVars == <<burden_geo, chart1, hpi_csv, zhvi_csv, covid_trends, chart3>>
altVars == <<alt_files, alt_run, alt_chart1, alt_chart2>>
appLoadVars == <<app_files, app_run, app_page>>
vars == <<gen_pc, policy_data, policy_mix_data, coverage_csv, mix_csv, by_type, chart2,
          expiring_units, expiring_summary, expiring_cumulative, batch3,
          year_range, df_summary, df_cumulative, risk_page,
          burden_geo, chart1, hpi_csv, zhvi_csv, covid_trends, chart3,
          alt_files, alt_run, alt_chart1, alt_chart2,
          app_files, app_run, app_page, reports>>

Abs(x) == IF x < 0 THEN -x ELSE x

RECURSIVE Pow10(_)
Pow10(n) == IF n = 0 THEN 1 ELSE 10 * Pow10(n - 1)

(***************************************************************************)
(* generate_data_simple.py, section 1: policy coverage data                *)
(***************************************************************************)
\* lines 18-20: the first entries of the list of cities
cities == <<"New York, NY", "Los Angeles, CA">>

Draws == 0..MaxDraw

BurdenValues == (0..MaxBurden) \cup {LargeBurden}

\* a float: the exact rational num/den, or a ZeroDivisionError raised by "/"
Float(n, d) == [err |-> FALSE, num |-> n, den |-> d]
ZeroDivisionError == [err |-> TRUE, num |-> 0, den |-> 0]

\* Python's a / b * 100 on ints: raises on b = 0
PyRatioTimes100(a, b) == IF b = 0 THEN ZeroDivisionError ELSE Float(a * 100, b)

\* line 44 without its guard
coverage_ratio_unguarded(total_subsidized, cost_burden_renters) ==
    PyRatioTimes100(total_subsidized, cost_burden_renters)

\* line 44: (total_subsidized / cost_burden_renters * 100) if cost_burden_renters > 0 else 0
coverage_ratio(total_subsidized, cost_burden_renters) ==
    IF cost_burden_renters > 0
    THEN PyRatioTimes100(total_subsidized, cost_burden_renters)
    ELSE Float(0, 1)

\* round(x, ndigits) truncating instead of rounding to nearest
PyRound_floor(x, ndigits) ==
    {(x.num * Pow10(ndigits)) \div x.den}

\* round(x, ndigits) for x >= 0: the numerators k of the results k / 10^ndigits
PyRound(x, ndigits) ==
    LET scaled == x.num * Pow10(ndigits)
        q == scaled \div x.den
        r == scaled % x.den
    IN  IF 2 * r < x.den THEN {q}
        ELSE IF 2 * r > x.den THEN {q + 1}
        ELSE {q, q + 1}

\* round(coverage_ratio, 1)
round_ratio_one_digit(x) ==
    {Float(k, Pow10(1)) : k \in PyRound(x, 1)}

\* lines 54-55: round(coverage_ratio, 2)
round_ratio(x) ==
    {Float(k, Pow10(RatioDigits)) : k \in PyRound(x, RatioDigits)}

\* the record with a flag set on a zero ratio instead of a zero denominator
PolicyRecord_flag_zero_ratio(city, burden, public_housing, vouchers, lihtc, section8, ratio) ==
    [city |-> city,
     severe_cost_burden_renters |-> burden,
     public_housing_units |-> public_housing,
     voucher_households |-> vouchers,
     lihtc_units |-> lihtc,
     section8_units |-> section8,
     total_subsidized |-> public_housing + vouchers + lihtc + section8,
     coverage_ratio |-> ratio,
     subsidized_per_100_burdened |-> ratio,
     undefined_denominator |-> (ratio.num = 0)]

\* lines 46-56: the record appended for one city
PolicyRecord(city, burden, public_housing, vouchers, lihtc, section8, ratio) ==
    [city |-> city,
     severe_cost_burden_renters |-> burden,
     public_housing_units |-> public_housing,
     voucher_households |-> vouchers,
     lihtc_units |-> lihtc,
     section8_units |-> section8,
     total_subsidized |-> public_housing + vouchers + lihtc + section8,
     coverage_ratio |-> ratio,
     subsidized_per_100_burdened |-> ratio]

\* lines 36-56: one iteration of the loop over cities
GenerateCity ==
    /\ gen_pc \in 1..Len(cities)
    /\ \E ph \in Draws, v \in Draws, l \in Draws, s8 \in Draws, t \in BurdenValues :
         LET public_housing == ph * Thousand
             vouchers == v * Thousand
             lihtc == l * Thousand
             section8 == s8 * Thousand
             total_subsidized == public_housing + vouchers + lihtc + section8
             cost_burden_renters == t * Thousand
             cr == coverage_ratio(total_subsidized, cost_burden_renters)
         IN  IF cr.err
             THEN /\ gen_pc' = 0
                  /\ UNCHANGED <<policy_data, policy_mix_data>>
                  /\ UNCHANGED <<viz2Vars, riskVars, ptVars, altVars, appLoadVars, reports>>
             ELSE \E ratio \in round_ratio(cr) :
                    /\ policy_data' = Append(policy_data,
                          PolicyRecord(cities[gen_pc], cost_burden_renters, public_housing,
                                       vouchers, lihtc, section8, ratio))
                    /\ gen_pc' = gen_pc + 1
                    /\ UNCHANGED policy_mix_data
                    /\ UNCHANGED <<viz2Vars, riskVars, ptVars, altVars, appLoadVars, reports>>

\* the files and frames of visualization 2 before anything is loaded
Viz2Idle ==
    /\ coverage_csv = [present |-> FALSE, rows |-> << >>]
    /\ mix_csv = [present |-> FALSE, rows |-> << >>]
    /\ by_type = << >>
    /\ chart2 = "pending"

\* the frames of the expiring-units analyses before anything is loaded
RiskIdle ==
    /\ expiring_units = << >>
    /\ expiring_summary = << >>
    /\ expiring_cumulative = << >>
    /\ batch3 = "pending"
    /\ year_range = <<0, 0>>
    /\ df_summary = << >>
    /\ df_cumulative = << >>
    /\ risk_page = "idle"

AllFiles == [coverage |-> TRUE, mix |-> TRUE, expiring |-> TRUE]

\* a printed message: the program, what the message says has failed, and
\* the cause it gives
Report(program, subject, why) == [program |-> program, subject |-> subject, why |-> why]

\* partner_template.py lines 83-87 and 268-272: "WARNING: policy_coverage.csv
\* or policy_mix.csv not found. Skipping chart N."
SkipWarning(chart) ==
    Report("partner_template", chart, "policy_coverage.csv or policy_mix.csv not found")

\* the exception text of the first read that fails: the files are read in
\* the order coverage, mix, expiring
FirstMissing(files) ==
    IF ~files.coverage THEN "No such file or directory: policy_coverage"
    ELSE IF ~files.mix THEN "No such file or directory: policy_mix"
    ELSE "No such file or directory: expiring_units"

\* visualizations 1 and 3 of partner_template.py before they run
PtIdle ==
    /\ burden_geo = << >>
    /\ chart1 = "pending"
    /\ hpi_csv = [present |-> FALSE, rows |-> << >>]
    /\ zhvi_csv = [present |-> FALSE, cols |-> << >>]
    /\ covid_trends = << >>
    /\ chart3 = "pending"
    /\ reports = {}

\* create_visualizations_altair.py before it loads its data
AltIdle ==
    /\ alt_files = AllFiles
    /\ alt_run = "start"
    /\ alt_chart1 = "pending"
    /\ alt_chart2 = "pending"

\* app.py before it loads its data
AppIdle ==
    /\ app_files = AllFiles
    /\ app_run = "start"
    /\ app_page = "none"

InitGen ==
    /\ gen_pc = 1
    /\ policy_data = << >>
    /\ policy_mix_data = << >>
    /\ Viz2Idle
    /\ RiskIdle
    /\ PtIdle
    /\ AltIdle
    /\ AppIdle

GenDone == gen_pc = Len(cities) + 1
GenFaulted == gen_pc = 0

NextGen == GenerateCity

SpecGen == InitGen /\ [][NextGen]_vars

(***************************************************************************)
(* generate_data_simple.py, section 2: policy mix data                     *)
(***************************************************************************)
\* lines 18-20: the whole list of cities, which the loop of section 2 is
\* followed over
all_cities ==
    <<"New York, NY", "Los Angeles, CA", "Chicago, IL", "Detroit, MI", "Cleveland, OH",
      "Philadelphia, PA", "San Francisco, CA", "Boston, MA">>

MixRecord(city, city_type, public_housing, voucher, lihtc, section8, iz) ==
    [city |-> city, city_type |-> city_type, public_housing_pct |-> public_housing,
     voucher_pct |-> voucher, lihtc_pct |-> lihtc, section8_pct |-> section8,
     iz_pct |-> iz]

\* the branches with the shares of the Mixed branch rounded from thirds
mix_record_rounded_shares(city) ==
    IF city \in {"New York, NY", "San Francisco, CA", "Boston, MA"}
    THEN MixRecord(city, "Strong Market", 15, 25, 45, 10, 5)
    ELSE IF city \in {"Detroit, MI", "Cleveland, OH"}
    THEN MixRecord(city, "Legacy City", 40, 35, 15, 8, 2)
    ELSE MixRecord(city, "Mixed", 25, 33, 33, 5, 5)

\* lines 68-95: the record of a city, by the branch of its type
mix_record(city) ==
    IF city \in {"New York, NY", "San Francisco, CA", "Boston, MA"}
    THEN MixRecord(city, "Strong Market", 15, 25, 45, 10, 5)
    ELSE IF city \in {"Detroit, MI", "Cleveland, OH"}
    THEN MixRecord(city, "Legacy City", 40, 35, 15, 8, 2)
    ELSE MixRecord(city, "Mixed", 25, 30, 30, 10, 5)

\* lines 67-96: one iteration of the loop of section 2, which starts after
\* section 1 has written its file
GenerateMix ==
    /\ GenDone
    /\ Len(policy_mix_data) < Len(all_cities)
    /\ policy_mix_data' = Append(policy_mix_data, mix_record(all_cities[Len(policy_mix_data) + 1]))
    /\ UNCHANGED <<gen_pc, policy_data>>
    /\ UNCHANGED <<viz2Vars, riskVars, ptVars, altVars, appLoadVars, reports>>

\* section 1 has run: one record per city, the demand of each any entry of
\* the table, the supply a unit draw of each programme
InitMix ==
    /\ gen_pc = Len(cities) + 1
    /\ \E t \in [1..Len(cities) -> BurdenValues] :
          \E r \in [1..Len(cities) ->
                        UNION {round_ratio(coverage_ratio(4 * Thousand, b * Thousand)) :
                                  b \in BurdenValues}] :
              /\ \A i \in 1..Len(cities) :
                     r[i] \in round_ratio(coverage_ratio(4 * Thousand, t[i] * Thousand))
              /\ policy_data =
                     [i \in 1..Len(cities) |->
                         PolicyRecord(cities[i], t[i] * Thousand, Thousand, Thousand,
                                      Thousand, Thousand, r[i])]
    /\ policy_mix_data = << >>
    /\ Viz2Idle
    /\ RiskIdle
    /\ PtIdle
    /\ AltIdle
    /\ AppIdle

NextMix == GenerateMix

SpecMix == InitMix /\ [][NextMix]_vars

(***************************************************************************)
(* Floating point of numpy / pandas: division by zero does not raise, it   *)
(* yields inf ([num |-> 1 or -1, den |-> 0]) or nan ([num |-> 0,           *)
(* den |-> 0]); every comparison with nan is false.                        *)
(***************************************************************************)
NaN == Float(0, 0)
Inf(sign) == Float(sign, 0)
IsNaN(x) == x.den = 0 /\ x.num = 0
IsFinite(x) == x.den > 0
Sign(k) == IF k > 0 THEN 1 ELSE IF k < 0 THEN -1 ELSE 0

\* int / int on numpy scalars and pandas columns
NpDiv(a, b) ==
    IF b > 0 THEN Float(a, b)
    ELSE IF b < 0 THEN Float(-a, -b)
    ELSE Inf(Sign(a))

FNeg(x) == Float(-x.num, x.den)

FAdd(x, y) ==
    IF IsFinite(x) /\ IsFinite(y) THEN Float(x.num * y.den + y.num * x.den, x.den * y.den)
    ELSE IF IsNaN(x) \/ IsNaN(y) THEN NaN
    ELSE IF IsFinite(x) THEN y
    ELSE IF IsFinite(y) THEN x
    ELSE IF x.num = y.num THEN x ELSE NaN

FMul(x, y) ==
    IF IsFinite(x) /\ IsFinite(y) THEN Float(x.num * y.num, x.den * y.den)
    ELSE IF IsNaN(x) \/ IsNaN(y) THEN NaN
    ELSE Inf(Sign(x.num) * Sign(y.num))

FromInt(k) == Float(k, 1)

\* x > y
FGt(x, y) ==
    IF IsNaN(x) \/ IsNaN(y) THEN FALSE
    ELSE IF IsFinite(x) /\ IsFinite(y) THEN x.num * y.den > y.num * x.den
    ELSE IF IsFinite(x) THEN y.num < 0
    ELSE IF IsFinite(y) THEN x.num > 0
    ELSE x.num > y.num

\* x == y as floats
FEq(x, y) ==
    IF IsNaN(x) \/ IsNaN(y) THEN FALSE
    ELSE IF IsFinite(x) /\ IsFinite(y) THEN x.num * y.den = y.num * x.den
    ELSE x = y

RECURSIVE SumSeq(_)
SumSeq(q) == IF q = << >> THEN 0 ELSE Head(q) + SumSeq(Tail(q))

\* Series.sum(): nan entries are skipped
RECURSIVE FSumSkipNa(_)
FSumSkipNa(q) ==
    IF q = << >> THEN FromInt(0)
    ELSE IF IsNaN(Head(q)) THEN FSumSkipNa(Tail(q))
    ELSE FAdd(Head(q), FSumSkipNa(Tail(q)))

\* q with x inserted before the first entry greater than x (q ascending)
RECURSIVE FInsert(_, _)
FInsert(x, q) ==
    IF q = << >> THEN <<x>>
    ELSE IF FGt(Head(q), x) THEN <<x>> \o q
    ELSE <<Head(q)>> \o FInsert(x, Tail(q))

RECURSIVE FSort(_)
FSort(q) == IF q = << >> THEN << >> ELSE FInsert(Head(q), FSort(Tail(q)))

\* Series.median(): nan entries are skipped; nan when nothing is left
FMedian(q) ==
    LET kept == FSort(SelectSeq(q, LAMBDA x : ~IsNaN(x)))
        n == Len(kept)
    IN  IF n = 0 THEN NaN
        ELSE IF n % 2 = 1 THEN kept[(n + 1) \div 2]
        ELSE FMul(FAdd(kept[n \div 2], kept[n \div 2 + 1]), Float(1, 2))

(***************************************************************************)
(* partner_template.py, visualization 2: burden and coverage by city type  *)
(***************************************************************************)
\* the city_type of a coverage row that has no policy-mix row
NoType == "NaN"

\* the city types of the data, in ascending (lexicographic) order
TypeOrder == <<"Legacy City", "Mixed", "Strong Market">>

\* lines 101-103 with how="right"
merge_right(coverage, mix) ==
    LET RECURSIVE go(_)
        go(right) ==
            IF right = << >> THEN << >>
            ELSE LET m == Head(right)
                     hits == SelectSeq(coverage, LAMBDA c : c.city = m.city)
                     RECURSIVE tag(_)
                     tag(hs) ==
                         IF hs = << >> THEN << >>
                         ELSE <<[city |-> m.city,
                                 severe_cost_burden_renters |-> Head(hs).severe_cost_burden_renters,
                                 total_subsidized |-> Head(hs).total_subsidized,
                                 city_type |-> m.city_type]>> \o tag(Tail(hs))
                 IN  (IF hits = << >>
                      THEN <<[city |-> m.city, severe_cost_burden_renters |-> 0,
                              total_subsidized |-> 0, city_type |-> m.city_type]>>
                      ELSE tag(hits)) \o go(Tail(right))
    IN  go(mix)

\* lines 101-103: coverage.merge(mix[["city", "city_type"]], on="city", how="left")
merge_left(coverage, mix) ==
    LET RECURSIVE go(_)
        go(left) ==
            IF left = << >> THEN << >>
            ELSE LET c == Head(left)
                     hits == SelectSeq(mix, LAMBDA m : m.city = c.city)
                     RECURSIVE tag(_)
                     tag(hs) ==
                         IF hs = << >> THEN << >>
                         ELSE <<[city |-> c.city,
                                 severe_cost_burden_renters |-> c.severe_cost_burden_renters,
                                 total_subsidized |-> c.total_subsidized,
                                 city_type |-> Head(hs).city_type]>> \o tag(Tail(hs))
                 IN  (IF hits = << >>
                      THEN <<[city |-> c.city,
                              severe_cost_burden_renters |-> c.severe_cost_burden_renters,
                              total_subsidized |-> c.total_subsidized,
                              city_type |-> NoType]>>
                      ELSE tag(hits)) \o go(Tail(left))
    IN  go(coverage)

\* the distinct entries of q in the order of their first occurrence
RECURSIVE FirstSeen(_)
FirstSeen(q) ==
    IF q = << >> THEN << >>
    ELSE <<Head(q)>> \o FirstSeen(SelectSeq(Tail(q), LAMBDA x : x # Head(q)))

\* the group keys with sort=False: in order of first occurrence
group_keys_unsorted(merged) ==
    FirstSeen([i \in 1..Len(SelectSeq(merged, LAMBDA r : r.city_type # NoType)) |->
                  SelectSeq(merged, LAMBDA r : r.city_type # NoType)[i].city_type])

\* line 106: the keys of groupby("city_type"): sort=True puts them in ascending
\* order, dropna=True leaves out the rows without a city_type
group_keys(merged) ==
    SelectSeq(TypeOrder, LAMBDA t : \E i \in 1..Len(merged) : merged[i].city_type = t)

\* lines 105-111: groupby("city_type", as_index=False).agg(sum, sum)
groupby_agg(merged) ==
    LET keys == group_keys(merged)
        column(t, f) ==
            LET rows == SelectSeq(merged, LAMBDA r : r.city_type = t)
            IN  SumSeq([i \in 1..Len(rows) |-> rows[i][f]])
    IN  [k \in 1..Len(keys) |->
            [city_type |-> keys[k],
             total_severe |-> column(keys[k], "severe_cost_burden_renters"),
             total_subsidized |-> column(keys[k], "total_subsidized")]]

\* the share taken of the demand of all merged rows, typed or not
severely_burdened_pct_of_all_rows(total_severe, grouped, merged) ==
    FMul(NpDiv(total_severe,
               SumSeq([i \in 1..Len(merged) |-> merged[i].severe_cost_burden_renters])),
         FromInt(100))

\* lines 114-116: by_type["total_severe"] / by_type["total_severe"].sum() * 100.0
severely_burdened_pct(total_severe, grouped, merged) ==
    FMul(NpDiv(total_severe,
               SumSeq([i \in 1..Len(grouped) |-> grouped[i].total_severe])),
         FromInt(100))

\* the ratio with a zero denominator resolved to 0
subsidized_per_100_burdened_guarded(total_subsidized, total_severe) ==
    IF total_severe > 0
    THEN FMul(NpDiv(total_subsidized, total_severe), FromInt(100))
    ELSE FromInt(0)

\* lines 119-121: by_type["total_subsidized"] / by_type["total_severe"] * 100.0
subsidized_per_100_burdened(total_subsidized, total_severe) ==
    FMul(NpDiv(total_subsidized, total_severe), FromInt(100))

\* (row["total_severe"] - min_size) / (max_size - min_size)
size_factor(total_severe, min_size, max_size) ==
    NpDiv(total_severe - min_size, max_size - min_size)

\* lines 136-139: the lambda of label_dy
label_dy(row, median_y, min_size, max_size) ==
    IF FGt(row.subsidized_per_100_burdened, median_y)
    THEN FAdd(FromInt(-25),
              FNeg(FMul(size_factor(row.total_severe, min_size, max_size), FromInt(10))))
    ELSE FAdd(FromInt(25),
              FMul(size_factor(row.total_severe, min_size, max_size), FromInt(10)))

\* lines 141-143: the lambda of label_dx
label_dx(row, min_size, max_size) ==
    FAdd(Float(3, 2), FMul(size_factor(row.total_severe, min_size, max_size), Float(1, 2)))

SeqMax(q) == CHOOSE x \in {q[i] : i \in 1..Len(q)} : \A j \in 1..Len(q) : q[j] <= x
SeqMin(q) == CHOOSE x \in {q[i] : i \in 1..Len(q)} : \A j \in 1..Len(q) : x <= q[j]

\* lines 128-143: the label offsets added to the rollup.  On an empty frame
\* median, max and min are nan and apply() calls the lambdas on no row.
with_labels(frame) ==
    IF frame = << >> THEN << >>
    ELSE
    LET median_y == FMedian([i \in 1..Len(frame) |-> frame[i].subsidized_per_100_burdened])
        sizes == [i \in 1..Len(frame) |-> frame[i].total_severe]
        max_size == SeqMax(sizes)
        min_size == SeqMin(sizes)
    IN  [i \in 1..Len(frame) |->
            [income_group |-> frame[i].income_group,
             total_severe |-> frame[i].total_severe,
             total_subsidized |-> frame[i].total_subsidized,
             severely_burdened_pct |-> frame[i].severely_burdened_pct,
             subsidized_per_100_burdened |-> frame[i].subsidized_per_100_burdened,
             label_dy |-> label_dy(frame[i], median_y, min_size, max_size),
             label_dx |-> label_dx(frame[i], min_size, max_size)]]

\* lines 101-124: the rollup of the two loaded frames, city_type renamed to
\* income_group
rollup(coverage, mix) ==
    LET merged == merge_left(coverage, mix)
        grouped == groupby_agg(merged)
    IN  [k \in 1..Len(grouped) |->
            [income_group |-> grouped[k].city_type,
             total_severe |-> grouped[k].total_severe,
             total_subsidized |-> grouped[k].total_subsidized,
             severely_burdened_pct |->
                 severely_burdened_pct(grouped[k].total_severe, grouped, merged),
             subsidized_per_100_burdened |->
                 subsidized_per_100_burdened(grouped[k].total_subsidized,
                                             grouped[k].total_severe)]]

\* lines 98-274: the try block of visualization 2.  load_csv raises
\* FileNotFoundError for a missing file (lines 13-26), which the first handler
\* reports as a skipped chart; nothing after the loads raises on well-formed
\* frames, so the chart is saved.
\* lines 33-89: visualization 1; a missing file is reported as a warning and
\* the chart skipped
Visualization1 ==
    /\ chart1 = "pending"
    /\ IF ~coverage_csv.present \/ ~mix_csv.present
       THEN /\ chart1' = "skipped"
            /\ reports' = reports \cup {SkipWarning("chart 1")}
            /\ UNCHANGED burden_geo
       ELSE /\ burden_geo' = merge_left(coverage_csv.rows, mix_csv.rows)
            /\ chart1' = "saved"
            /\ UNCHANGED reports
    /\ UNCHANGED <<hpi_csv, zhvi_csv, covid_trends, chart3>>
    /\ UNCHANGED <<genVars, viz2Vars, riskVars, altVars, appLoadVars>>

Visualization2 ==
    /\ chart1 # "pending"
    /\ chart2 = "pending"
    /\ IF ~coverage_csv.present \/ ~mix_csv.present
       THEN /\ chart2' = "skipped"
            /\ reports' = reports \cup {SkipWarning("chart 2")}
            /\ UNCHANGED by_type
       ELSE /\ by_type' = with_labels(rollup(coverage_csv.rows, mix_csv.rows))
            /\ chart2' = "saved"
            /\ UNCHANGED reports
    /\ UNCHANGED <<coverage_csv, mix_csv>>
    /\ UNCHANGED <<genVars, riskVars, ptVars, altVars, appLoadVars>>

\* all sequences over S of length at most n
SeqUpTo(S, n) == UNION {[1..k -> S] : k \in 0..n}

\* the input files of visualization 2: each one missing, or present with a
\* header and any rows (a city may be listed more than once, or not at all)
CityNames == {"Detroit, MI", "New York, NY"}
SevereValues == {0, 1, 3}
SubsidizedValues == {0, 1}
MixTypes == {"Legacy City", "Strong Market"}

CoverageRow ==
    [city : CityNames, severe_cost_burden_renters : SevereValues,
     total_subsidized : SubsidizedValues]

MixRow == [city : CityNames, city_type : MixTypes]

CsvFiles(Row, n) ==
    {[present |-> FALSE, rows |-> << >>]} \cup
    {[present |-> TRUE, rows |-> q] : q \in SeqUpTo(Row, n)}

\* the generator before its loop
GenIdle ==
    /\ gen_pc = 1
    /\ policy_data = << >>
    /\ policy_mix_data = << >>

\* visualization 1 has run on the two files
Viz1Ran ==
    /\ chart1 = IF coverage_csv.present /\ mix_csv.present THEN "saved" ELSE "skipped"
    /\ burden_geo = IF coverage_csv.present /\ mix_csv.present
                    THEN merge_left(coverage_csv.rows, mix_csv.rows) ELSE << >>
    /\ reports = IF coverage_csv.present /\ mix_csv.present
                 THEN {} ELSE {SkipWarning("chart 1")}

\* visualization 3 before it runs
Viz3Idle ==
    /\ hpi_csv = [present |-> FALSE, rows |-> << >>]
    /\ zhvi_csv = [present |-> FALSE, cols |-> << >>]
    /\ covid_trends = << >>
    /\ chart3 = "pending"

InitViz2 ==
    /\ coverage_csv \in CsvFiles(CoverageRow, MaxCoverageRows)
    /\ mix_csv \in CsvFiles(MixRow, MaxMixRows)
    /\ by_type = << >>
    /\ chart2 = "pending"
    /\ Viz1Ran
    /\ Viz3Idle
    /\ GenIdle
    /\ RiskIdle
    /\ AltIdle
    /\ AppIdle

NextViz2 == Visualization2

SpecViz2 == InitViz2 /\ [][NextViz2]_vars

(***************************************************************************)
(* partner_template.py, visualization 3: the annual series of the two      *)
(* house price sources, merged on year                                     *)
(***************************************************************************)
\* lines 312 and 332: the first year kept
YearFloor == 2010

\* line 301: the period cells that int() and then to_datetime() accept
PeriodText == <<"1", "2", "3", "4", "5", "6", "7", "8", "9", "10", "11", "12">>
ParsesAsMonth(p) == \E m \in 1..Len(PeriodText) : PeriodText[m] = p

\* the column names of the value file that to_datetime() parses, with the
\* year of the date; any other name is coerced to NaT (line 327)
DateTable ==
    {<<"2009-12-31", 2009>>, <<"2010-01-31", 2010>>, <<"2010-02-28", 2010>>,
     <<"2011-01-31", 2011>>,
     <<"2015-06-30", 2015>>, <<"2016-06-30", 2016>>, <<"2017-06-30", 2017>>,
     <<"2018-06-30", 2018>>, <<"2019-06-30", 2019>>, <<"2020-06-30", 2020>>,
     <<"2021-06-30", 2021>>, <<"2022-06-30", 2022>>, <<"2023-06-30", 2023>>,
     <<"2024-06-30", 2024>>, <<"2025-06-30", 2025>>}
NaT == 0
to_datetime_year(date_str) ==
    IF \E e \in DateTable : e[1] = date_str
    THEN (CHOOSE e \in DateTable : e[1] = date_str)[2]
    ELSE NaT

\* lines 296-299: the monthly rows of the United States
hpi_us(rows) ==
    SelectSeq(rows, LAMBDA r : r.place_name = "United States" /\ r.frequency = "monthly")

\* lines 301-304: astype(int) or to_datetime() raises on a period that is
\* not a month number
hpi_parse_fails(rows) ==
    \E i \in 1..Len(hpi_us(rows)) : ~ParsesAsMonth(hpi_us(rows)[i].period)

\* lines 301-305: the observations of the index file, dated by yr
hpi_observations(rows) ==
    [i \in 1..Len(hpi_us(rows)) |->
        [year |-> hpi_us(rows)[i].yr, value |-> hpi_us(rows)[i].index_sa]]

\* lines 320-329: one observation per date column, the columns whose name is
\* not a date dropped
zhvi_observations(cols) ==
    LET long == [i \in 1..Len(cols) |->
                    [year |-> to_datetime_year(cols[i].date_str), value |-> cols[i].zhvi]]
    IN  SelectSeq(long, LAMBDA r : r.year # NaT)

RECURSIVE SortedInts(_)
SortedInts(S) ==
    IF S = {} THEN << >>
    ELSE LET m == CHOOSE x \in S : \A y \in S : x <= y
         IN  <<m>> \o SortedInts(S \ {m})

\* groupby("year").sum() of the values, in place of the mean
annual_sum(obs) ==
    LET years == SortedInts({obs[i].year : i \in 1..Len(obs)})
    IN  [k \in 1..Len(years) |->
            LET mine == SelectSeq(obs, LAMBDA r : r.year = years[k])
            IN  [year |-> years[k],
                 value |-> FromInt(SumSeq([j \in 1..Len(mine) |-> mine[j].value]))]]

\* lines 307-311 and 331: groupby("year", as_index=False)[...].mean(), one row
\* per year in ascending order
annual_mean(obs) ==
    LET years == SortedInts({obs[i].year : i \in 1..Len(obs)})
    IN  [k \in 1..Len(years) |->
            LET mine == SelectSeq(obs, LAMBDA r : r.year = years[k])
            IN  [year |-> years[k],
                 value |-> NpDiv(SumSeq([j \in 1..Len(mine) |-> mine[j].value]),
                                 Len(mine))]]

\* the floor with > in place of >=
year_floor_exclusive(series) == SelectSeq(series, LAMBDA r : r.year > YearFloor)

\* lines 312 and 332: series[series["year"] >= 2010]
year_floor(series) == SelectSeq(series, LAMBDA r : r.year >= YearFloor)

hpi_year(rows) == year_floor(annual_mean(hpi_observations(rows)))
zhvi_year(cols) == year_floor(annual_mean(zhvi_observations(cols)))

\* pd.merge(left, right, on="year", how="left"): every year of the left
\* series, nan where the right one has none
merge_on_year_left(left, right) ==
    [i \in 1..Len(left) |->
        [year |-> left[i].year,
         hpi_index |-> left[i].value,
         zhvi |-> IF \E j \in 1..Len(right) : right[j].year = left[i].year
                  THEN right[CHOOSE j \in 1..Len(right) : right[j].year = left[i].year].value
                  ELSE NaN]]

\* line 334: pd.merge(hpi_year, zhvi_year, on="year", how="inner"); each
\* series has one row per year
merge_on_year(left, right) ==
    LET both == SelectSeq(left, LAMBDA r : \E j \in 1..Len(right) : right[j].year = r.year)
    IN  [i \in 1..Len(both) |->
            [year |-> both[i].year,
             hpi_index |-> both[i].value,
             zhvi |-> right[CHOOSE j \in 1..Len(right) : right[j].year = both[i].year].value]]

\* lines 293-381: visualization 3.  A missing file (FileNotFoundError) and a
\* period that does not parse both end in the one handler of lines 380-381,
\* which prints "ERROR creating chart 3"
Visualization3 ==
    /\ chart2 # "pending"
    /\ chart3 = "pending"
    /\ IF ~hpi_csv.present \/ ~zhvi_csv.present \/ hpi_parse_fails(hpi_csv.rows)
       THEN /\ chart3' = "error"
            /\ reports' = reports \cup
                   {Report("partner_template", "chart 3",
                           IF ~hpi_csv.present THEN "hpi_master.csv not found"
                           ELSE IF ~zhvi_csv.present THEN "Metro_zhvi csv not found"
                           ELSE "invalid literal for int()")}
            /\ UNCHANGED covid_trends
       ELSE /\ covid_trends' = merge_on_year(hpi_year(hpi_csv.rows), zhvi_year(zhvi_csv.cols))
            /\ chart3' = "saved"
            /\ UNCHANGED reports
    /\ UNCHANGED <<burden_geo, chart1, hpi_csv, zhvi_csv>>
    /\ UNCHANGED <<genVars, viz2Vars, riskVars, altVars, appLoadVars>>

\* the index file: monthly rows of the United States, a row of another
\* place, a quarterly row, and a row whose period is not a month
HpiYearValues == {2009, 2010, 2011}
IndexValues == {100, 300}
HpiRow ==
    [place_name : {"United States"}, frequency : {"monthly"}, yr : HpiYearValues,
     period : {"1"}, index_sa : IndexValues]
    \cup {[place_name |-> "Pacific Division", frequency |-> "monthly", yr |-> 2010,
           period |-> "1", index_sa |-> 300],
          [place_name |-> "United States", frequency |-> "quarterly", yr |-> 2010,
           period |-> "1", index_sa |-> 300],
          [place_name |-> "United States", frequency |-> "monthly", yr |-> 2010,
           period |-> "x", index_sa |-> 100]}

\* the value file: the cells of the United States row under its date
\* columns, left to right, one of them not named by a date
ZhviDates == <<"2009-12-31", "2010-01-31", "2010-02-28", "2011-01-31", "not a date">>
ZhviValues == {1, 3}
ZhviFiles(n) ==
    {[present |-> FALSE, cols |-> << >>]} \cup
    {[present |-> TRUE,
      cols |-> [i \in 1..Len(q) |-> [date_str |-> ZhviDates[q[i].ix], zhvi |-> q[i].zhvi]]] :
        q \in {c \in SeqUpTo([ix : 1..Len(ZhviDates), zhvi : ZhviValues], n) :
                  \A i \in 1..(Len(c) - 1) : c[i].ix < c[i + 1].ix}}

\* one index row a year for 2010..2023 and one date column a year for
\* 2015..2025
ExampleHpi ==
    [present |-> TRUE,
     rows |-> [i \in 1..14 |->
                 [place_name |-> "United States", frequency |-> "monthly",
                  yr |-> 2009 + i, period |-> "1", index_sa |-> 100]]]
ExampleDates ==
    <<"2015-06-30", "2016-06-30", "2017-06-30", "2018-06-30", "2019-06-30", "2020-06-30",
      "2021-06-30", "2022-06-30", "2023-06-30", "2024-06-30", "2025-06-30">>
ExampleZhvi ==
    [present |-> TRUE,
     cols |-> [i \in 1..Len(ExampleDates) |-> [date_str |-> ExampleDates[i], zhvi |-> 1]]]

\* visualizations 1 and 2 have run without their files
Viz12Skipped ==
    /\ coverage_csv = [present |-> FALSE, rows |-> << >>]
    /\ mix_csv = [present |-> FALSE, rows |-> << >>]
    /\ burden_geo = << >>
    /\ chart1 = "skipped"
    /\ by_type = << >>
    /\ chart2 = "skipped"
    /\ reports = {SkipWarning("chart 1"), SkipWarning("chart 2")}

InitViz3 ==
    /\ \/ /\ hpi_csv \in CsvFiles(HpiRow, MaxHpiRows)
          /\ zhvi_csv \in ZhviFiles(MaxZhviCols)
       \/ /\ hpi_csv = ExampleHpi
          /\ zhvi_csv = ExampleZhvi
    /\ covid_trends = << >>
    /\ chart3 = "pending"
    /\ Viz12Skipped
    /\ GenIdle
    /\ RiskIdle
    /\ AltIdle
    /\ AppIdle

NextViz3 == Visualization3

SpecViz3 == InitViz3 /\ [][NextViz3]_vars

(***************************************************************************)
(* create_visualizations_altair.py, visualization 3, and app.py, future    *)
(* risk: expiring units per (city, year) and their running total           *)
(***************************************************************************)
\* the cities in ascending (lexicographic) order
CityOrder == <<"Detroit, MI", "New York, NY">>

CityRank(c) == CHOOSE k \in 1..Len(CityOrder) : CityOrder[k] = c

\* (city, year) of row a sorts before that of row b
KeyLess(a, b) ==
    \/ CityRank(a.city) < CityRank(b.city)
    \/ a.city = b.city /\ a.year < b.year

SameKey(a, b) == a.city = b.city /\ a.year = b.year

\* the frame with row x inserted after the rows that do not sort after it
RECURSIVE KeyInsert(_, _)
KeyInsert(x, q) ==
    IF q = << >> THEN <<x>>
    ELSE IF KeyLess(x, Head(q)) THEN <<x>> \o q
    ELSE <<Head(q)>> \o KeyInsert(x, Tail(q))

\* sort_values left out: the frame as it is
sort_values_omitted(frame) == frame

\* .sort_values(['city', 'year'])
RECURSIVE sort_values(_)
sort_values(frame) ==
    IF frame = << >> THEN << >>
    ELSE KeyInsert(frame[Len(frame)], sort_values(SubSeq(frame, 1, Len(frame) - 1)))

\* the rows with only their city, year and expiring_units, not aggregated
groupby_city_year_omitted(rows) ==
    [i \in 1..Len(rows) |->
        [city |-> rows[i].city, year |-> rows[i].year,
         expiring_units |-> rows[i].expiring_units]]

\* .groupby(['city', 'year']).agg({'expiring_units': 'sum'}).reset_index():
\* one row per distinct (city, year), in ascending key order, with the sum of
\* the expiring_units of the rows of that key
groupby_city_year(rows) ==
    LET RECURSIVE go(_)
        \* left: the rows not yet aggregated, in key order
        go(left) ==
            IF left = << >> THEN << >>
            ELSE LET k == Head(left)
                     same == SelectSeq(left, LAMBDA r : SameKey(r, k))
                     rest == SelectSeq(left, LAMBDA r : ~SameKey(r, k))
                 IN  <<[city |-> k.city, year |-> k.year,
                        expiring_units |->
                            SumSeq([i \in 1..Len(same) |-> same[i].expiring_units])]>>
                     \o go(rest)
    IN  go(sort_values(rows))

\* the cumulative column holding the per-year value, no running sum taken
cumsum_missing(frame) ==
    [i \in 1..Len(frame) |->
        [city |-> frame[i].city, year |-> frame[i].year,
         expiring_units |-> frame[i].expiring_units,
         cumulative |-> frame[i].expiring_units]]

\* frame['expiring_units'].cumsum() over the whole frame
cumsum_ungrouped(frame) ==
    [i \in 1..Len(frame) |->
        [city |-> frame[i].city, year |-> frame[i].year,
         expiring_units |-> frame[i].expiring_units,
         cumulative |-> SumSeq([j \in 1..i |-> frame[j].expiring_units])]]

\* frame['cumulative'] = frame.groupby('city')['expiring_units'].cumsum():
\* each row gets the sum of its city's rows up to and including itself
cumsum_by_city(frame) ==
    [i \in 1..Len(frame) |->
        [city |-> frame[i].city, year |-> frame[i].year,
         expiring_units |-> frame[i].expiring_units,
         cumulative |->
             LET upto == SelectSeq(SubSeq(frame, 1, i), LAMBDA r : r.city = frame[i].city)
             IN  SumSeq([j \in 1..Len(upto) |-> upto[j].expiring_units])]]

\* the running totals continued from the units of the table left by the
\* previous batch run
cumulative_series_carrying(rows) ==
    LET fresh == cumsum_by_city(sort_values(groupby_city_year(rows)))
        carried(c) ==
            LET old == SelectSeq(expiring_cumulative, LAMBDA r : r.city = c)
            IN  SumSeq([j \in 1..Len(old) |-> old[j].expiring_units])
    IN  [i \in 1..Len(fresh) |->
            [city |-> fresh[i].city, year |-> fresh[i].year,
             expiring_units |-> fresh[i].expiring_units,
             cumulative |-> fresh[i].cumulative + carried(fresh[i].city)]]

\* create_visualizations_altair.py lines 188-192, app.py lines 402-404 and
\* 423-425: aggregate, sort, accumulate
cumulative_series(rows) ==
    cumsum_by_city(sort_values(groupby_city_year(rows)))

\* create_visualizations_altair.py lines 165-167 and 188-192
ExpiringBatch ==
    /\ alt_chart2 = "saved"
    /\ batch3 = "pending"
    /\ expiring_summary' = groupby_city_year(expiring_units)
    /\ expiring_cumulative' = cumulative_series(expiring_units)
    /\ batch3' = "saved"
    /\ UNCHANGED <<expiring_units, appVars>>
    /\ UNCHANGED <<genVars, viz2Vars, ptVars, altVars, appLoadVars, reports>>

Years(rows) == {rows[i].year : i \in 1..Len(rows)}
MinOf(S) == CHOOSE x \in S : \A y \in S : x <= y
MaxOf(S) == CHOOSE x \in S : \A y \in S : y <= x

\* the filter without its lower end
filter_years_upper_only(rows, lo, hi) ==
    SelectSeq(rows, LAMBDA r : r.year <= hi)

\* app.py lines 396-399: the rows whose year lies in the selected range
filter_years(rows, lo, hi) ==
    SelectSeq(rows, LAMBDA r : r.year >= lo /\ r.year <= hi)

\* df_cumulative bound to the very frame of df_summary: the column added
\* at line 425 shows in the summary too
summary_shown_aliased(summary, cumulative) == cumulative

\* app.py lines 422-438: df_cumulative is df_summary.copy(), sorted into a
\* further new frame, so the frame bound to df_summary when it is displayed
\* (line 434) is the one built at lines 402-404
summary_shown(summary, cumulative) == summary

\* app.py lines 385-425, one run of the page for a slider position: the
\* slider spans the years of the data (lines 388-394); without records the
\* frame has no year column and the run ends in an exception
FutureRiskPage ==
    /\ app_run = "loaded"
    /\ IF expiring_units = << >>
       THEN /\ risk_page' = "error"
            /\ reports' = reports \cup {Report("app", "uncaught exception", "KeyError: 'year'")}
            /\ UNCHANGED <<year_range, df_summary, df_cumulative>>
       ELSE \E lo \in Years(expiring_units), hi \in Years(expiring_units) :
              /\ MinOf(Years(expiring_units)) <= lo
              /\ lo <= hi
              /\ hi <= MaxOf(Years(expiring_units))
              /\ year_range' = <<lo, hi>>
              /\ df_summary' =
                     summary_shown(groupby_city_year(filter_years(expiring_units, lo, hi)),
                                   cumulative_series(filter_years(expiring_units, lo, hi)))
              /\ df_cumulative' = cumulative_series(filter_years(expiring_units, lo, hi))
              /\ risk_page' = "shown"
              /\ UNCHANGED reports
    /\ UNCHANGED <<expiring_units, batchVars>>
    /\ UNCHANGED <<genVars, viz2Vars, ptVars, altVars, appLoadVars>>

\* the expiration records: any rows, in any order, several per (city, year)
YearValues == {2025, 2026}
ExpiringValues == {10, 50, 100}
PolicyTypes == {"LIHTC"}

ExpirationRow ==
    [city : CityNames, year : YearValues, expiring_units : ExpiringValues,
     policy_type : PolicyTypes]

\* create_visualizations_altair.py has loaded its files and saved the charts
\* of visualizations 1 and 2
AltLoaded ==
    /\ alt_files = AllFiles
    /\ alt_run = "loaded"
    /\ alt_chart1 = "saved"
    /\ alt_chart2 = "saved"

\* app.py has loaded its files
AppLoaded ==
    /\ app_files = AllFiles
    /\ app_run = "loaded"
    /\ app_page = "none"

InitRisk ==
    /\ expiring_units \in SeqUpTo(ExpirationRow, MaxExpiringRows)
    /\ expiring_summary = << >>
    /\ expiring_cumulative = << >>
    /\ batch3 = "pending"
    /\ year_range = <<0, 0>>
    /\ df_summary = << >>
    /\ df_cumulative = << >>
    /\ risk_page = "idle"
    /\ GenIdle
    /\ Viz2Idle
    /\ PtIdle
    /\ AltLoaded
    /\ AppLoaded

NextRisk == ExpiringBatch \/ FutureRiskPage

SpecRisk == InitRisk /\ [][NextRisk]_vars

\* expiration records whose counts may also be zero or negative (a feed
\* with corrections), for what depends on the sign of the values
SignedValues == {-10, 0, 10}

SignedExpirationRow ==
    [city : CityNames, year : YearValues, expiring_units : SignedValues,
     policy_type : PolicyTypes]

InitRiskSigned ==
    /\ expiring_units \in SeqUpTo(SignedExpirationRow, MaxExpiringRows)
    /\ expiring_summary = << >>
    /\ expiring_cumulative = << >>
    /\ batch3 = "pending"
    /\ year_range = <<0, 0>>
    /\ df_summary = << >>
    /\ df_cumulative = << >>
    /\ risk_page = "idle"
    /\ GenIdle
    /\ Viz2Idle
    /\ PtIdle
    /\ AltLoaded
    /\ AppLoaded

SpecRiskSigned == InitRiskSigned /\ [][NextRisk]_vars

(***************************************************************************)
(* The three programs from their start: which files exist, what each       *)
(* program delivers                                                        *)
(***************************************************************************)
FilePresence == [coverage : BOOLEAN, mix : BOOLEAN, expiring : BOOLEAN]

\* create_visualizations_altair.py lines 20-27: the three files are read in
\* one try block; any exception prints the error and ends the run by exit(1)
AltLoad ==
    /\ alt_run = "start"
    /\ alt_run' = IF alt_files = AllFiles THEN "loaded" ELSE "exited"
    /\ reports' = IF alt_files = AllFiles THEN reports
                  ELSE reports \cup {Report("create_visualizations_altair", "loading data",
                                            FirstMissing(alt_files))}
    /\ UNCHANGED <<alt_files, alt_chart1, alt_chart2>>
    /\ UNCHANGED <<genVars, viz2Vars, riskVars, ptVars, appLoadVars>>

\* create_visualizations_altair.py lines 32-93: the coverage gap and coverage
\* ratio charts, from policy_coverage
AltVisualization1 ==
    /\ alt_run = "loaded"
    /\ alt_chart1 = "pending"
    /\ alt_chart1' = "saved"
    /\ UNCHANGED <<alt_files, alt_run, alt_chart2>>
    /\ UNCHANGED <<genVars, viz2Vars, riskVars, ptVars, appLoadVars, reports>>

\* create_visualizations_altair.py lines 98-157: the policy mix charts, from
\* policy_mix
AltVisualization2 ==
    /\ alt_chart1 = "saved"
    /\ alt_chart2 = "pending"
    /\ alt_chart2' = "saved"
    /\ UNCHANGED <<alt_files, alt_run, alt_chart1>>
    /\ UNCHANGED <<genVars, viz2Vars, riskVars, ptVars, appLoadVars, reports>>

\* app.py lines 28-46: load_data() reads the three files in one try block and
\* returns (None, None, None) on any exception; the script then stops
AppLoad ==
    /\ app_run = "start"
    /\ app_run' = IF app_files = AllFiles THEN "loaded" ELSE "stopped"
    /\ reports' = IF app_files = AllFiles THEN reports
                  ELSE reports \cup {Report("app", "loading data", FirstMissing(app_files))}
    /\ UNCHANGED <<app_files, app_page>>
    /\ UNCHANGED <<genVars, viz2Vars, riskVars, ptVars, altVars>>

\* app.py lines 141-185, 224 and 306: the pages that show policy_coverage
\* and policy_mix
AppPages == {"Overview", "Coverage", "Policy Mix"}
AppPage ==
    /\ app_run = "loaded"
    /\ \E page \in AppPages : app_page' = page
    /\ UNCHANGED <<app_files, app_run>>
    /\ UNCHANGED <<genVars, viz2Vars, riskVars, ptVars, altVars, reports>>

\* one well-formed content for each file
SampleCoverage ==
    <<[city |-> "Detroit, MI", severe_cost_burden_renters |-> 3, total_subsidized |-> 1],
      [city |-> "New York, NY", severe_cost_burden_renters |-> 1, total_subsidized |-> 1]>>
SampleMix ==
    <<[city |-> "Detroit, MI", city_type |-> "Legacy City"],
      [city |-> "New York, NY", city_type |-> "Strong Market"]>>
SampleHpi ==
    <<[place_name |-> "United States", frequency |-> "monthly", yr |-> 2010,
       period |-> "1", index_sa |-> 100]>>
SampleZhvi == <<[date_str |-> "2010-01-31", zhvi |-> 1]>>
SampleExpiring ==
    <<[city |-> "Detroit, MI", year |-> 2025, expiring_units |-> 100, policy_type |-> "LIHTC"],
      [city |-> "Detroit, MI", year |-> 2026, expiring_units |-> 50, policy_type |-> "LIHTC"]>>

FileOf(present, content) ==
    IF present THEN [present |-> TRUE, rows |-> content]
    ELSE [present |-> FALSE, rows |-> << >>]

\* every program at its start, each of its files present or missing
InitPrograms ==
    /\ \E c, m, h, z \in BOOLEAN :
        /\ coverage_csv = FileOf(c, SampleCoverage)
        /\ mix_csv = FileOf(m, SampleMix)
        /\ hpi_csv = FileOf(h, SampleHpi)
        /\ zhvi_csv = IF z THEN [present |-> TRUE, cols |-> SampleZhvi]
                      ELSE [present |-> FALSE, cols |-> << >>]
    /\ burden_geo = << >>
    /\ chart1 = "pending"
    /\ by_type = << >>
    /\ chart2 = "pending"
    /\ covid_trends = << >>
    /\ chart3 = "pending"
    /\ alt_files \in FilePresence
    /\ alt_run = "start"
    /\ alt_chart1 = "pending"
    /\ alt_chart2 = "pending"
    /\ app_files \in FilePresence
    /\ app_run = "start"
    /\ app_page = "none"
    /\ reports = {}
    /\ expiring_units = SampleExpiring
    /\ expiring_summary = << >>
    /\ expiring_cumulative = << >>
    /\ batch3 = "pending"
    /\ year_range = <<0, 0>>
    /\ df_summary = << >>
    /\ df_cumulative = << >>
    /\ risk_page = "idle"
    /\ GenIdle

NextPrograms ==
    \/ Visualization1
    \/ Visualization2
    \/ Visualization3
    \/ AltLoad
    \/ AltVisualization1
    \/ AltVisualization2
    \/ ExpiringBatch
    \/ AppLoad
    \/ AppPage
    \/ FutureRiskPage

SpecPrograms == InitPrograms /\ [][NextPrograms]_vars

(***************************************************************************)
(* The programs run again on the files of the previous run: the tables of  *)
(* the previous run are still there when the next run starts               *)
(***************************************************************************)
\* partner_template.py is started again after a run that has saved a chart
RunAgainPartner ==
    /\ chart3 # "pending"
    /\ chart1 = "saved" \/ chart2 = "saved" \/ chart3 = "saved"
    /\ chart1' = "pending"
    /\ chart2' = "pending"
    /\ chart3' = "pending"
    /\ UNCHANGED <<coverage_csv, mix_csv, hpi_csv, zhvi_csv>>
    /\ UNCHANGED <<burden_geo, by_type, covid_trends, reports>>
    /\ UNCHANGED <<genVars, riskVars, altVars, appLoadVars>>

\* create_visualizations_altair.py is started again after a run that has
\* saved its charts
RunAgainBatch ==
    /\ batch3 = "saved"
    /\ alt_run' = "start"
    /\ alt_chart1' = "pending"
    /\ alt_chart2' = "pending"
    /\ batch3' = "pending"
    /\ UNCHANGED <<alt_files, expiring_units, expiring_summary, expiring_cumulative>>
    /\ UNCHANGED <<appVars, reports>>
    /\ UNCHANGED <<genVars, viz2Vars, ptVars, appLoadVars>>

NoFiles == [coverage |-> FALSE, mix |-> FALSE, expiring |-> FALSE]

\* partner_template.py at its start
PartnerAtStart ==
    /\ burden_geo = << >>
    /\ chart1 = "pending"
    /\ by_type = << >>
    /\ chart2 = "pending"
    /\ covid_trends = << >>
    /\ chart3 = "pending"

\* partner_template.py after a run without any of its files
PartnerRanWithoutFiles ==
    /\ coverage_csv = [present |-> FALSE, rows |-> << >>]
    /\ mix_csv = [present |-> FALSE, rows |-> << >>]
    /\ hpi_csv = [present |-> FALSE, rows |-> << >>]
    /\ zhvi_csv = [present |-> FALSE, cols |-> << >>]
    /\ burden_geo = << >>
    /\ chart1 = "skipped"
    /\ by_type = << >>
    /\ chart2 = "skipped"
    /\ covid_trends = << >>
    /\ chart3 = "error"

PartnerWithoutFilesReports ==
    {SkipWarning("chart 1"), SkipWarning("chart 2"),
     Report("partner_template", "chart 3", "hpi_master.csv not found")}

\* create_visualizations_altair.py and app.py after a run without their files
BatchAndAppRanWithoutFiles ==
    /\ alt_files = NoFiles
    /\ alt_run = "exited"
    /\ alt_chart1 = "pending"
    /\ alt_chart2 = "pending"
    /\ app_files = NoFiles
    /\ app_run = "stopped"
    /\ app_page = "none"
    /\ RiskIdle

BatchAndAppWithoutFilesReports ==
    {Report("create_visualizations_altair", "loading data", FirstMissing(NoFiles)),
     Report("app", "loading data", FirstMissing(NoFiles))}

\* one program group has its files, the others have run without theirs
InitRerun ==
    /\ GenIdle
    /\ \/ /\ coverage_csv \in CsvFiles(CoverageRow, MaxRerunRows)
          /\ \E m \in BOOLEAN : mix_csv = FileOf(m, SampleMix)
          /\ hpi_csv = [present |-> FALSE, rows |-> << >>]
          /\ zhvi_csv = [present |-> FALSE, cols |-> << >>]
          /\ PartnerAtStart
          /\ BatchAndAppRanWithoutFiles
          /\ reports = BatchAndAppWithoutFilesReports
       \/ /\ coverage_csv = [present |-> FALSE, rows |-> << >>]
          /\ mix_csv = [present |-> FALSE, rows |-> << >>]
          /\ hpi_csv \in CsvFiles(HpiRow, MaxRerunRows)
          /\ zhvi_csv \in {[present |-> FALSE, cols |-> << >>],
                           [present |-> TRUE, cols |-> SampleZhvi]}
          /\ PartnerAtStart
          /\ BatchAndAppRanWithoutFiles
          /\ reports = BatchAndAppWithoutFilesReports
       \/ /\ PartnerRanWithoutFiles
          /\ reports = PartnerWithoutFilesReports
          /\ expiring_units \in SeqUpTo(ExpirationRow, MaxRerunRows)
          /\ expiring_summary = << >>
          /\ expiring_cumulative = << >>
          /\ batch3 = "pending"
          /\ year_range = <<0, 0>>
          /\ df_summary = << >>
          /\ df_cumulative = << >>
          /\ risk_page = "idle"
          /\ AltIdle
          /\ AppLoaded

NextRerun ==
    \/ Visualization1
    \/ Visualization2
    \/ Visualization3
    \/ RunAgainPartner
    \/ AltLoad
    \/ AltVisualization1
    \/ AltVisualization2
    \/ ExpiringBatch
    \/ RunAgainBatch
    \/ FutureRiskPage

SpecRerun == InitRerun /\ [][NextRerun]_vars

(***************************************************************************)
(* Claims about the coverage ratio (generate_data_simple.py)               *)
(***************************************************************************)
PolicyFields ==
    {"city", "severe_cost_burden_renters", "public_housing_units",
     "voucher_households", "lihtc_units", "section8_units", "total_subsidized",
     "coverage_ratio", "subsidized_per_100_burdened"}

\* the record is marked as having an undefined denominator
Flagged(rec) ==
    "undefined_denominator" \in DOMAIN rec /\ rec.undefined_denominator

\* val is n/d rounded to `digits` decimal places: a multiple of 10^-digits at
\* most half a unit of the last place away from n/d
RoundsTo(val, n, d, digits) ==
    /\ (val.num * Pow10(digits)) % val.den = 0
    /\ LET m == (val.num * Pow10(digits)) \div val.den
       IN  2 * Abs(m * d - n * Pow10(digits)) <= d

PositiveDemand(rec) == rec.severe_cost_burden_renters > 0

Records == {policy_data[i] : i \in 1..Len(policy_data)}

\* C1 (as stated): for every record with demand d > 0 and supply s >= 0 the
\* stored coverage_ratio and subsidized_per_100_burdened equal (s / d) * 100
\* rounded to ONE decimal place.
C1_RatioRoundedToOneDecimal ==
    \A rec \in Records :
        PositiveDemand(rec) =>
            /\ RoundsTo(rec.coverage_ratio,
                        rec.total_subsidized * 100, rec.severe_cost_burden_renters, 1)
            /\ RoundsTo(rec.subsidized_per_100_burdened,
                        rec.total_subsidized * 100, rec.severe_cost_burden_renters, 1)

\* C1 (amended): for every record with demand d > 0 and supply s >= 0 the
\* stored coverage_ratio and subsidized_per_100_burdened equal (s / d) * 100
\* rounded to TWO decimal places.
C1_RatioRoundedToTwoDecimals ==
    \A rec \in Records :
        PositiveDemand(rec) =>
            /\ RoundsTo(rec.coverage_ratio,
                        rec.total_subsidized * 100, rec.severe_cost_burden_renters, 2)
            /\ RoundsTo(rec.subsidized_per_100_burdened,
                        rec.total_subsidized * 100, rec.severe_cost_burden_renters, 2)

\* a record whose ratio has a non-zero second decimal (33.33 for 1000 / 3000)
C1_Witness ==
    \E rec \in Records :
        /\ PositiveDemand(rec)
        /\ rec.total_subsidized > 0
        /\ rec.coverage_ratio.num % 10 # 0

Million == 1000 * 1000

\* the frame visualization 2 aggregates: the coverage rows tagged by the join
Merged == merge_left(coverage_csv.rows, mix_csv.rows)

Viz2Ran == chart2 # "pending" /\ coverage_csv.present /\ mix_csv.present

\* x is within 1e-6 of the integer k
WithinMillionth(x, k) ==
    /\ IsFinite(x)
    /\ LET diff == Abs(x.num - k * x.den)
       IN  diff = 0 \/ x.den \div Million >= diff

ShareSum == FSumSkipNa([i \in 1..Len(by_type) |-> by_type[i].severely_burdened_pct])

RollupDemand == SumSeq([i \in 1..Len(by_type) |-> by_type[i].total_severe])

\* C5 (as stated): for any non-empty input collection, total demand 0
\* included, the severely_burdened_pct column sums to 100 within 1e-6.
C5_SharesSumTo100ForNonEmptyInput ==
    (Viz2Ran /\ Merged # << >>) => WithinMillionth(ShareSum, 100)

\* C5 (amended): whenever the summed demand of the rollup rows is positive,
\* the severely_burdened_pct column sums to 100 within 1e-6 over all rollup
\* rows.  (With total demand 0, or with no row carrying a city type, every
\* share is nan or there is no row, and the column sums to 0.)
C5_SharesSumTo100ForPositiveDemand ==
    (Viz2Ran /\ RollupDemand > 0) => WithinMillionth(ShareSum, 100)

\* a rollup of two groups with positive demand each, built from an input
\* that also holds a row without a city type
C5_Witness ==
    /\ Viz2Ran
    /\ Len(by_type) = 2
    /\ \A i \in 1..2 : by_type[i].total_severe > 0
    /\ \E i \in 1..Len(Merged) : Merged[i].city_type = NoType

\* the place of the first row of type t in the aggregated frame
FirstRowOf(t) == CHOOSE i \in 1..Len(Merged) :
    /\ Merged[i].city_type = t
    /\ \A j \in 1..(i - 1) : Merged[j].city_type # t

TypeRank(t) == CHOOSE k \in 1..Len(TypeOrder) : TypeOrder[k] = t

\* C6 (as stated): the rollup rows come in the order in which each city
\* type is first seen in the input records.
C6_RollupInFirstSeenOrder ==
    Viz2Ran =>
        \A i, j \in 1..Len(by_type) :
            i < j => FirstRowOf(by_type[i].income_group) < FirstRowOf(by_type[j].income_group)

\* C6 (amended): the rollup has one row per city type present in the input
\* and the rows come in ascending order of the city type, whatever the order
\* of the input records: deterministic, and not the first-seen order.
C6_RollupInAscendingKeyOrder ==
    Viz2Ran =>
        /\ \A i, j \in 1..Len(by_type) :
            i < j => TypeRank(by_type[i].income_group) < TypeRank(by_type[j].income_group)
        /\ {by_type[i].income_group : i \in 1..Len(by_type)} =
               {Merged[i].city_type : i \in 1..Len(Merged)} \ {NoType}

\* a rollup of two groups whose first-seen order is the reverse of their
\* key order
C6_Witness ==
    /\ Viz2Ran
    /\ Len(by_type) = 2
    /\ FirstRowOf(by_type[2].income_group) < FirstRowOf(by_type[1].income_group)

\* C7: each rollup row's ratio is group_supply / group_demand * 100 over the
\* group's sums, and a group whose summed demand is 0 gets ratio 0, not a
\* fault, an infinity or a nan.
C7_GroupRatioOfSumsZeroOnZeroDemand ==
    Viz2Ran =>
        /\ chart2 = "saved"
        /\ \A i \in 1..Len(by_type) :
            LET row == by_type[i]
            IN  IF row.total_severe > 0
                THEN FEq(row.subsidized_per_100_burdened,
                         Float(row.total_subsidized * 100, row.total_severe))
                ELSE FEq(row.subsidized_per_100_burdened, FromInt(0))

SumWhere(rows, Keep(_)) ==
    LET kept == SelectSeq(rows, Keep)
    IN  SumSeq([i \in 1..Len(kept) |-> kept[i].expiring_units])

\* the records the app aggregates: those of the selected years
Selected == filter_years(expiring_units, year_range[1], year_range[2])

\* out has exactly one row per distinct (city, year) of input, carrying the
\* sum of the input rows of that (city, year)
OneRowPerCityYear(out, input) ==
    /\ \A i, j \in 1..Len(out) : i # j => ~SameKey(out[i], out[j])
    /\ \A i \in 1..Len(input) : \E j \in 1..Len(out) : SameKey(out[j], input[i])
    /\ \A j \in 1..Len(out) :
        /\ \E i \in 1..Len(input) : SameKey(out[j], input[i])
        /\ out[j].expiring_units = SumWhere(input, LAMBDA r : SameKey(r, out[j]))

Detroit == "Detroit, MI"

ExampleInput ==
    <<[city |-> Detroit, year |-> 2025, expiring_units |-> 100, policy_type |-> "LIHTC"],
      [city |-> Detroit, year |-> 2025, expiring_units |-> 50, policy_type |-> "LIHTC"],
      [city |-> Detroit, year |-> 2026, expiring_units |-> 10, policy_type |-> "LIHTC"]>>

ExampleOutput ==
    <<[city |-> Detroit, year |-> 2025, expiring_units |-> 150, cumulative |-> 150],
      [city |-> Detroit, year |-> 2026, expiring_units |-> 10, cumulative |-> 160]>>

\* C9: rows sharing a (city, year) are summed into one row before the running
\* total is taken, so the cumulative table has exactly one row per distinct
\* (city, year), in the batch script and in the app alike; (A,2025,100),
\* (A,2025,50), (A,2026,10) gives (A,2025,150,150) and (A,2026,10,160).
C9_DuplicatesSummedBeforeAccumulation ==
    /\ batch3 = "saved" =>
        /\ OneRowPerCityYear(expiring_cumulative, expiring_units)
        /\ OneRowPerCityYear(expiring_summary, expiring_units)
        /\ expiring_units = ExampleInput => expiring_cumulative = ExampleOutput
    /\ risk_page = "shown" =>
        /\ OneRowPerCityYear(df_cumulative, Selected)
        /\ OneRowPerCityYear(df_summary, Selected)
        /\ (expiring_units = ExampleInput /\ year_range = <<2025, 2026>>) =>
               df_cumulative = ExampleOutput

\* both programs have run on the example input, the app over all its years
C9_Witness ==
    /\ expiring_units = ExampleInput
    /\ batch3 = "saved"
    /\ risk_page = "shown"
    /\ year_range = <<2025, 2026>>

\* every row (g, y) of out carries as cumulative the sum of the input values
\* of group g with year <= y
RunningSumPerGroup(out, input) ==
    \A j \in 1..Len(out) :
        out[j].cumulative =
            SumWhere(input, LAMBDA r : r.city = out[j].city /\ r.year <= out[j].year)

\* C10: the running sum resets at each group boundary: for every output row
\* (g, y), cumulative is the sum of the input values of group g with year <= y
\* (in the app: of the input values of the selected years) and holds no value
\* of another group.
C10_RunningSumResetsPerGroup ==
    /\ batch3 = "saved" => RunningSumPerGroup(expiring_cumulative, expiring_units)
    /\ risk_page = "shown" => RunningSumPerGroup(df_cumulative, Selected)

\* both tables hold rows of two cities, the second city's rows after the
\* first's
C10_Witness ==
    /\ batch3 = "saved"
    /\ risk_page = "shown"
    /\ \E i, j \in 1..Len(expiring_cumulative) :
        i < j /\ expiring_cumulative[i].city # expiring_cumulative[j].city
    /\ \E i, j \in 1..Len(df_cumulative) :
        i < j /\ df_cumulative[i].city # df_cumulative[j].city

\* within every group whose per-year values are all >= 0, cumulative does not
\* decrease from a year to a later year
NonDecreasingPerGroup(out) ==
    \A c \in CityNames :
        (\A k \in 1..Len(out) : out[k].city = c => out[k].expiring_units >= 0) =>
            \A i, j \in 1..Len(out) :
                (out[i].city = c /\ out[j].city = c /\ out[i].year < out[j].year) =>
                    out[i].cumulative <= out[j].cumulative

\* C11: for every group, when all its per-year values are >= 0, the
\* cumulative column is non-decreasing when the group's rows are read in
\* ascending year order.
C11_CumulativeNonDecreasing ==
    /\ batch3 = "saved" => NonDecreasingPerGroup(expiring_cumulative)
    /\ risk_page = "shown" => NonDecreasingPerGroup(df_cumulative)

\* the batch table holds a group of two years with non-negative values, the
\* later one 0, next to a group with a negative value
C11_Witness ==
    /\ batch3 = "saved"
    /\ \E i, j \in 1..Len(expiring_cumulative) :
        /\ expiring_cumulative[i].city = expiring_cumulative[j].city
        /\ expiring_cumulative[i].year < expiring_cumulative[j].year
        /\ expiring_cumulative[i].expiring_units > 0
        /\ expiring_cumulative[j].expiring_units = 0
    /\ \E k \in 1..Len(expiring_cumulative) : expiring_cumulative[k].expiring_units < 0

\* the inputs that differ from rows by the exchange of two neighbouring rows;
\* every permutation is a chain of such exchanges
NeighbourSwaps(rows) ==
    {[k \in 1..Len(rows) |->
         IF k = i THEN rows[i + 1] ELSE IF k = i + 1 THEN rows[i] ELSE rows[k]] :
     i \in 1..(Len(rows) - 1)}

\* C12: the builder does not assume caller ordering: an input that differs
\* only in the order of its rows gives the same output rows in the same
\* order, in the batch script and in the app.
C12_OutputIndependentOfInputOrder ==
    /\ batch3 = "saved" =>
        \A other \in NeighbourSwaps(expiring_units) :
            /\ cumulative_series(other) = expiring_cumulative
            /\ groupby_city_year(other) = expiring_summary
    /\ risk_page = "shown" =>
        \A other \in NeighbourSwaps(expiring_units) :
            cumulative_series(filter_years(other, year_range[1], year_range[2]))
                = df_cumulative

\* both programs have run on an input whose rows are not in (city, year)
\* order and that holds two rows of one (city, year) with different values
C12_Witness ==
    /\ batch3 = "saved"
    /\ risk_page = "shown"
    /\ \E i \in 1..(Len(expiring_units) - 1) :
        KeyLess(expiring_units[i + 1], expiring_units[i])
    /\ \E i, j \in 1..Len(expiring_units) :
        /\ SameKey(expiring_units[i], expiring_units[j])
        /\ expiring_units[i].expiring_units # expiring_units[j].expiring_units
    /\ Len(df_cumulative) >= 2

(***************************************************************************)
(* Claims about the merged annual series (partner_template.py,             *)
(* visualization 3)                                                        *)
(***************************************************************************)
\* the index rows that are observations of source A: monthly, United States
HpiIdx == {i \in 1..Len(hpi_csv.rows) :
              /\ hpi_csv.rows[i].place_name = "United States"
              /\ hpi_csv.rows[i].frequency = "monthly"}
\* the date columns that are observations of source B: those named by a date
ZhviIdx == {i \in 1..Len(zhvi_csv.cols) : to_datetime_year(zhvi_csv.cols[i].date_str) # NaT}

HpiYearOf(i) == hpi_csv.rows[i].yr
ZhviYearOf(i) == to_datetime_year(zhvi_csv.cols[i].date_str)

\* the years of each source that survive the floor
FlooredYearsA == {y \in {HpiYearOf(i) : i \in HpiIdx} : y >= 2010}
FlooredYearsB == {y \in {ZhviYearOf(i) : i \in ZhviIdx} : y >= 2010}

MergedYears == {covid_trends[i].year : i \in 1..Len(covid_trends)}

ExampleRun == hpi_csv = ExampleHpi /\ zhvi_csv = ExampleZhvi

\* C13: the years of the merged series are exactly the years of both
\* sources that survive the floor year >= 2010, 2010 itself kept, each in
\* exactly one row; source years 2010..2023 and 2015..2025 give the 9 rows
\* of 2015..2023.
C13_MergedYearsAreFlooredIntersection ==
    chart3 = "saved" =>
        /\ MergedYears = FlooredYearsA \cap FlooredYearsB
        /\ \A i, j \in 1..Len(covid_trends) :
               i # j => covid_trends[i].year # covid_trends[j].year
        /\ ExampleRun => (MergedYears = 2015..2023 /\ Len(covid_trends) = 9)

\* the series was merged from the sources of 2010..2023 and of 2015..2025
C13_Witness ==
    /\ chart3 = "saved"
    /\ ExampleRun
    /\ Len(covid_trends) = 9

RECURSIVE SumOver(_, _)
\* the sum of f[i] over the indices i of I
SumOver(I, f) ==
    IF I = {} THEN 0
    ELSE LET i == CHOOSE x \in I : TRUE IN f[i] + SumOver(I \ {i}, f)

\* x is the arithmetic mean of the values f[i], i in I
IsMeanOf(x, I, f) ==
    /\ I # {}
    /\ IsFinite(x)
    /\ x.num * Cardinality(I) = SumOver(I, f) * x.den

HpiValues == [i \in 1..Len(hpi_csv.rows) |-> hpi_csv.rows[i].index_sa]
ZhviCells == [i \in 1..Len(zhvi_csv.cols) |-> zhvi_csv.cols[i].zhvi]

\* C14: each source is reduced on its own: for every year of the merged
\* series, hpi_index is the arithmetic mean of all index observations of that
\* year and zhvi the arithmetic mean of all value observations of that year,
\* none left out and none of another year or of the other source included.
C14_AnnualValueIsMeanOfYear ==
    chart3 = "saved" =>
        \A k \in 1..Len(covid_trends) :
            /\ IsMeanOf(covid_trends[k].hpi_index,
                        {i \in HpiIdx : HpiYearOf(i) = covid_trends[k].year}, HpiValues)
            /\ IsMeanOf(covid_trends[k].zhvi,
                        {i \in ZhviIdx : ZhviYearOf(i) = covid_trends[k].year}, ZhviCells)

\* a merged year with two different observations in each source
C14_Witness ==
    /\ chart3 = "saved"
    /\ \E k \in 1..Len(covid_trends) :
        /\ \E i, j \in HpiIdx :
            /\ HpiYearOf(i) = covid_trends[k].year
            /\ HpiYearOf(j) = covid_trends[k].year
            /\ HpiValues[i] # HpiValues[j]
        /\ \E i, j \in ZhviIdx :
            /\ ZhviYearOf(i) = covid_trends[k].year
            /\ ZhviYearOf(j) = covid_trends[k].year
            /\ ZhviCells[i] # ZhviCells[j]

\* every US monthly row of the index file has a period that parses
AllPeriodsParse == \A i \in HpiIdx : ParsesAsMonth(hpi_csv.rows[i].period)

\* C15: when both annual series could be built and, after the floor, share
\* no year, the merge gives an empty series and visualization 3 ends without
\* an error.
C15_NoSharedYearEmptySeriesNoError ==
    (/\ chart3 # "pending"
     /\ hpi_csv.present /\ zhvi_csv.present /\ AllPeriodsParse
     /\ FlooredYearsA \cap FlooredYearsB = {}) =>
        /\ covid_trends = << >>
        /\ chart3 = "saved"

\* both floored series have years, none in common
C15_Witness ==
    /\ chart3 = "saved"
    /\ FlooredYearsA # {}
    /\ FlooredYearsB # {}
    /\ FlooredYearsA \cap FlooredYearsB = {}
    /\ covid_trends = << >>

\* C20: an index observation whose period does not parse is dropped, that
\* row alone, and annualization and merging go on over the remaining rows of
\* both sources.
C20_MalformedRowDroppedRestMerged ==
    (chart3 # "pending" /\ hpi_csv.present /\ zhvi_csv.present) =>
        /\ chart3 = "saved"
        /\ covid_trends =
               merge_on_year(
                   hpi_year(SelectSeq(hpi_csv.rows, LAMBDA r : ParsesAsMonth(r.period))),
                   zhvi_year(zhvi_csv.cols))

(***************************************************************************)
(* Claims about the label offsets (partner_template.py, visualization 2)   *)
(***************************************************************************)
LabelYs == [i \in 1..Len(by_type) |-> by_type[i].subsidized_per_100_burdened]
LabelMedian == FMedian(LabelYs)
LabelSizes == {by_type[i].total_severe : i \in 1..Len(by_type)}
FAbs(x) == IF x.num < 0 THEN FNeg(x) ELSE x
FPositive(x) == FGt(x, FromInt(0))
FNegative(x) == FGt(FromInt(0), x)

\* C16: the vertical offset of a point is negative when its y is strictly
\* above the median y of the set and positive when its y is at or below the
\* median.
C16_SignFollowsMedian ==
    chart2 = "saved" =>
        \A i \in 1..Len(by_type) :
            /\ FGt(LabelYs[i], LabelMedian) => FNegative(by_type[i].label_dy)
            /\ (FGt(LabelMedian, LabelYs[i]) \/ FEq(LabelYs[i], LabelMedian)) =>
                   FPositive(by_type[i].label_dy)

\* C17: when all points have the same size, a single point included, every
\* |label_dy| is the base 25 and every label_dx the base 1.5, and no value
\* is undefined.
C17_EqualSizesGiveBaseOffsets ==
    (chart2 = "saved" /\ Cardinality(LabelSizes) = 1) =>
        \A i \in 1..Len(by_type) :
            /\ FEq(FAbs(by_type[i].label_dy), FromInt(25))
            /\ FEq(by_type[i].label_dx, Float(3, 2))

\* C18: label_dx is strictly positive for every point and strictly smaller
\* than that point's |label_dy|.
C18_DxPositiveAndBelowAbsDy ==
    chart2 = "saved" =>
        \A i \in 1..Len(by_type) :
            /\ FPositive(by_type[i].label_dx)
            /\ FGt(FAbs(by_type[i].label_dy), by_type[i].label_dx)

(***************************************************************************)
(* Claims about missing inputs                                             *)
(***************************************************************************)
\* the runs have reached their last statement or have been ended
PartnerEnded == chart3 # "pending"
AltEnded == alt_run = "exited" \/ batch3 # "pending"
AppEnded == app_run # "start"

\* C19: when an input record set is missing, only the datasets that need it
\* fail: at the end of a run every chart or table whose own inputs are
\* present has been delivered, in each of the three programs.
C19_OnlyDependentDatasetsFail ==
    /\ PartnerEnded =>
        /\ (coverage_csv.present /\ mix_csv.present) =>
               (chart1 = "saved" /\ chart2 = "saved")
        /\ (hpi_csv.present /\ zhvi_csv.present) => chart3 = "saved"
    /\ AltEnded =>
        /\ alt_files.coverage => alt_chart1 = "saved"
        /\ alt_files.mix => alt_chart2 = "saved"
        /\ alt_files.expiring => batch3 = "saved"
    /\ (AppEnded /\ (app_files.coverage \/ app_files.mix \/ app_files.expiring)) =>
           app_run = "loaded"

(***************************************************************************)
(* Claims about failure reports                                            *)
(***************************************************************************)
\* some message of the program names the subject and gives a cause
Named(program, subject) ==
    \E r \in reports : r.program = program /\ r.subject = subject /\ r.why # ""

\* every table a program has produced is the one its inputs determine,
\* whatever has failed before or after it
ProducedTablesIntact ==
    /\ chart1 = "saved" => burden_geo = merge_left(coverage_csv.rows, mix_csv.rows)
    /\ chart2 = "saved" => by_type = with_labels(rollup(coverage_csv.rows, mix_csv.rows))
    /\ chart3 = "saved" =>
           covid_trends = merge_on_year(hpi_year(hpi_csv.rows), zhvi_year(zhvi_csv.cols))
    /\ batch3 = "saved" =>
           /\ expiring_summary = groupby_city_year(expiring_units)
           /\ expiring_cumulative = cumulative_series(expiring_units)

\* the charts of partner_template.py that have failed are each named by a
\* message that gives the cause
PartnerFailuresNamed ==
    /\ chart1 \in {"skipped", "error"} => Named("partner_template", "chart 1")
    /\ chart2 \in {"skipped", "error"} => Named("partner_template", "chart 2")
    /\ chart3 \in {"skipped", "error"} => Named("partner_template", "chart 3")

\* C21: every derived dataset that has failed is named, with the cause, by a
\* report of its program, and the tables produced before and after a failure
\* are the ones their inputs determine.
C21_EveryFailedDatasetNamedOthersIntact ==
    /\ PartnerFailuresNamed
    /\ alt_run = "exited" =>
        /\ Named("create_visualizations_altair", "chart 1")
        /\ Named("create_visualizations_altair", "chart 2")
        /\ Named("create_visualizations_altair", "chart 3")
    /\ app_run = "stopped" =>
        \A page \in AppPages \cup {"Future Risk"} : Named("app", page)
    /\ ProducedTablesIntact

SummaryColumns == {"city", "year", "expiring_units"}

PctSum(rec) ==
    rec.public_housing_pct + rec.voucher_pct + rec.lihtc_pct + rec.section8_pct + rec.iz_pct

\* C24: in every generated policy mix record, of every city and of each of
\* the three city-type branches, the five percentage fields are non-negative
\* and sum to 100.
C24_MixPercentagesSumTo100 ==
    \A i \in 1..Len(policy_mix_data) :
        /\ policy_mix_data[i].city = all_cities[i]
        /\ policy_mix_data[i].public_housing_pct >= 0
        /\ policy_mix_data[i].voucher_pct >= 0
        /\ policy_mix_data[i].lihtc_pct >= 0
        /\ policy_mix_data[i].section8_pct >= 0
        /\ policy_mix_data[i].iz_pct >= 0
        /\ PctSum(policy_mix_data[i]) = 100

\* the loop has ended with a record for every city and records of all three
\* city types
C24_Witness ==
    /\ Len(policy_mix_data) = Len(all_cities)
    /\ {policy_mix_data[i].city_type : i \in 1..Len(policy_mix_data)}
           = {"Strong Market", "Legacy City", "Mixed"}

(***************************************************************************)
(* Claims about what the rollup conserves (partner_template.py)            *)
(***************************************************************************)
InputDemand ==
    SumSeq([i \in 1..Len(coverage_csv.rows) |-> coverage_csv.rows[i].severe_cost_burden_renters])
InputSupply ==
    SumSeq([i \in 1..Len(coverage_csv.rows) |-> coverage_csv.rows[i].total_subsidized])
RollupSupply == SumSeq([i \in 1..Len(by_type) |-> by_type[i].total_subsidized])

\* C25: the sum of total_severe over the rollup rows equals the sum of the
\* demand of the coverage records, and the sum of total_subsidized the sum of
\* their supply, also when a city has no policy mix row or several.
C25_RollupConservesTotals ==
    chart2 = "saved" =>
        /\ RollupDemand = InputDemand
        /\ RollupSupply = InputSupply

(***************************************************************************)
(* Claims about the app's cumulative table against the batch script's      *)
(***************************************************************************)
FullRange ==
    /\ expiring_units # << >>
    /\ year_range[1] = MinOf(Years(expiring_units))
    /\ year_range[2] = MaxOf(Years(expiring_units))

\* C26: for the selected range [lo, hi], every row (city, y) of the app's
\* cumulative table has lo <= y <= hi and carries the sum of that city's
\* expiring units over the years lo..y only; when [lo, hi] is the whole range
\* of the data, the table is the batch script's cumulative table.
C26_AppCumulativeOverSelectedYears ==
    risk_page = "shown" =>
        /\ \A k \in 1..Len(df_cumulative) :
               /\ year_range[1] <= df_cumulative[k].year
               /\ df_cumulative[k].year <= year_range[2]
               /\ df_cumulative[k].cumulative =
                      SumWhere(expiring_units,
                               LAMBDA r : /\ r.city = df_cumulative[k].city
                                          /\ year_range[1] <= r.year
                                          /\ r.year <= df_cumulative[k].year)
        /\ (batch3 = "saved" /\ FullRange) => df_cumulative = expiring_cumulative

\* both programs have run, the app over the whole range of two years, and a
\* city has a second-year total above that year's units
C26_Witness ==
    /\ batch3 = "saved"
    /\ risk_page = "shown"
    /\ FullRange
    /\ year_range[1] < year_range[2]
    /\ \E k \in 1..Len(df_cumulative) :
           df_cumulative[k].cumulative > df_cumulative[k].expiring_units

=============================================================================
